---- MODULE Spec2Model ----
(***************************************************************************)
(* A model of wsh, the shell of wsh.c: the line interpreter                *)
(* (parse_and_execute), its built-ins, the history array, the local        *)
(* variable array, and the processes and descriptors of execute_command    *)
(* and execute_piped_commands.                                             *)
(*                                                                         *)
(* A C string is a sequence of one-character strings, so that strtok,      *)
(* atoi and the '$' and '=' tests are computed as the code computes them.  *)
(* A descriptor table is a function from descriptor numbers to open file   *)
(* descriptions; pipe() takes the two lowest free numbers as the kernel    *)
(* does.  Children of the shell run concurrently with it: each system call *)
(* sequence of one process that no other process can observe is one step.  *)
(***************************************************************************)
EXTENDS Integers, Sequences, FiniteSets, TLC

\* ------------------------------------------------------------------ bounds
\* Highest descriptor number of a process (0..2 are the standard streams; the
\* shell holds at most three pipe descriptors at a time).
MaxFd == 5
\* Most children of the shell left running or unreaped by earlier lines.
MaxBg == 1

\* wsh.c:16  #define MAX_HISTORY 5
MAX_HISTORY == 5
\* wsh.c:18  #define MAX_LOCAL_VARS 128
MAX_LOCAL_VARS == 128

\* ----------------------------------------------------------------- strings
\* The null pointer: no C string, since its one element is not a character.
Null == <<"(null)">>

Last(s) == s[Len(s)]
Front(s) == SubSeq(s, 1, Len(s) - 1)

\* The tokens strtok() returns over successive calls on s with delimiter set
\* D: the maximal runs of characters outside D, in order.
RECURSIVE StrtokFrom(_, _, _, _)
StrtokFrom(s, D, k, cur) ==
  IF k > Len(s)
  THEN IF cur = <<>> THEN <<>> ELSE <<cur>>
  ELSE IF s[k] \in D
       THEN IF cur = <<>>
            THEN StrtokFrom(s, D, k + 1, <<>>)
            ELSE <<cur>> \o StrtokFrom(s, D, k + 1, <<>>)
       ELSE StrtokFrom(s, D, k + 1, Append(cur, s[k]))

Strtok(s, D) == StrtokFrom(s, D, 1, <<>>)

Digits == <<"0", "1", "2", "3", "4", "5", "6", "7", "8", "9">>
IsDigit(c) == \E d \in 1..10 : Digits[d] = c
DigitVal(c) == (CHOOSE d \in 1..10 : Digits[d] = c) - 1

RECURSIVE AtoiDigits(_, _, _)
AtoiDigits(s, k, acc) ==
  IF k > Len(s) \/ ~IsDigit(s[k]) THEN acc
  ELSE AtoiDigits(s, k + 1, acc * 10 + DigitVal(s[k]))

\* atoi(): leading white space, an optional sign, then digits up to the first
\* character that is none; 0 when there is no digit.
RECURSIVE SkipSpace(_, _)
SkipSpace(s, k) ==
  IF k <= Len(s) /\ s[k] \in {" ", "\t", "\n"} THEN SkipSpace(s, k + 1) ELSE k

Atoi(s) ==
  LET k == SkipSpace(s, 1)
  IN  IF k > Len(s) THEN 0
      ELSE IF s[k] = "-" THEN 0 - AtoiDigits(s, k + 1, 0)
      ELSE IF s[k] = "+" THEN AtoiDigits(s, k + 1, 0)
      ELSE AtoiDigits(s, k, 0)

\* strchr(s, c) != NULL
HasChar(s, c) == \E k \in 1..Len(s) : s[k] = c

\* strspn(cmd, " \t\n\v\f\r") == strlen(cmd)
AllWhitespace(s) == \A k \in 1..Len(s) : s[k] \in {" ", "\t", "\n", "\f", "\r"}

\* The words the code compares against.
S_cd == <<"c", "d">>
S_exit == <<"e", "x", "i", "t">>
S_history == <<"h", "i", "s", "t", "o", "r", "y">>
S_export == <<"e", "x", "p", "o", "r", "t">>
S_local == <<"l", "o", "c", "a", "l">>
S_vars == <<"v", "a", "r", "s">>
S_set == <<"s", "e", "t">>
S_amp == <<"&">>

\* ----------------------------------------------------------- the tokenizer
\* process_input: the tokens of the line split on ' ' and '\n'; a last token
\* "&" is removed and sets the background flag.
process_input(s) ==
  LET toks == Strtok(s, {" ", "\n"})
      bg == Len(toks) > 0 /\ Last(toks) = S_amp
  IN  [argv |-> IF bg THEN Front(toks) ELSE toks, background |-> bg]

\* argv[k] of a NULL-terminated argument array (k counted from 0).
Arg(argv, k) == IF k < Len(argv) THEN argv[k + 1] ELSE Null

\* strtok(input, " \t\n") of parse_and_execute: the first word, or NULL.
FirstToken(s) ==
  LET toks == Strtok(s, {" ", "\t", "\n"})
  IN  IF toks = <<>> THEN Null ELSE toks[1]

\* A variant of isBuiltInCommand that does not know "export".
isBuiltInCommand_noexport(c) == c \in {S_cd, S_exit, S_history, S_local, S_vars}

\* isBuiltInCommand
isBuiltInCommand(c) == c \in {S_cd, S_exit, S_history, S_export, S_local, S_vars}

\* strtok(arg, "=") then strtok(NULL, "") of built_in_command: the name is the
\* first run of characters other than '='; the value is what follows the '='
\* that ends the name, NULL when nothing follows.
NameValue(arg) ==
  LET n == Len(arg)
      starts == {k \in 1..n : arg[k] # "="}
  IN  IF starts = {} THEN [name |-> Null, value |-> Null]
      ELSE LET b == CHOOSE k \in starts : \A j \in starts : k <= j
               ends == {k \in b..n : arg[k] = "="}
               e == IF ends = {} THEN n + 1
                    ELSE CHOOSE k \in ends : \A j \in ends : k <= j
               rest == SubSeq(arg, e + 1, n)
           IN  [name |-> SubSeq(arg, b, e - 1),
                value |-> IF rest = <<>> THEN Null ELSE rest]

\* ---------------------------------------------------------------- history
\* add_to_history reads history[0] of an array of no elements when recording is
\* enabled and count = capacity = 0: undefined behaviour.
AddToHistoryUB(h, cap, en, cmd) ==
  /\ en /\ cmd # Null /\ cmd # <<>> /\ ~AllWhitespace(cmd)
  /\ ~(Len(h) > 0 /\ Last(h) = cmd)
  /\ Len(h) = cap /\ cap = 0

\* A variant of add_to_history that records whatever the recording flag says.
add_to_history_always(h, cap, en, cmd) ==
  IF cmd = Null \/ cmd = <<>> \/ AllWhitespace(cmd) THEN h
  ELSE IF Len(h) > 0 /\ Last(h) = cmd THEN h
  ELSE IF Len(h) = cap
       THEN IF cap = 0 THEN h ELSE Append(Tail(h), cmd)
       ELSE Append(h, cmd)

\* A variant of add_to_history that does not compare the line with the newest
\* entry.
add_to_history_nodedup(h, cap, en, cmd) ==
  IF ~en \/ cmd = Null \/ cmd = <<>> \/ AllWhitespace(cmd) THEN h
  ELSE IF Len(h) = cap
       THEN IF cap = 0 THEN h ELSE Append(Tail(h), cmd)
       ELSE Append(h, cmd)

\* add_to_history: the entries after the call (oldest first).
add_to_history(h, cap, en, cmd) ==
  IF ~en \/ cmd = Null \/ cmd = <<>> \/ AllWhitespace(cmd) THEN h
  ELSE IF Len(h) > 0 /\ Last(h) = cmd THEN h
  ELSE IF Len(h) = cap
       THEN IF cap = 0 THEN h ELSE Append(Tail(h), cmd)
       ELSE Append(h, cmd)

\* A variant of EvictOldest that drops the newest entries.
RECURSIVE EvictOldest_newest(_, _)
EvictOldest_newest(h, newSize) ==
  IF Len(h) > newSize THEN EvictOldest_newest(Front(h), newSize) ELSE h

\* The while loop of set_history_size: drop history[0] while count > newSize.
RECURSIVE EvictOldest(_, _)
EvictOldest(h, newSize) ==
  IF Len(h) > newSize THEN EvictOldest(Tail(h), newSize) ELSE h

\* A variant of set_history_size that leaves the recording flag as it finds it.
set_history_size_keepflag(h, cap, en, newSize, reallocOK) ==
  IF newSize < 0 THEN [history |-> h, capacity |-> cap, enabled |-> en]
  ELSE LET h1 == EvictOldest(h, newSize)
       IN  IF ~reallocOK /\ newSize > 0
           THEN [history |-> h1, capacity |-> cap, enabled |-> en]
           ELSE [history |-> h1, capacity |-> newSize, enabled |-> en]

\* set_history_size: entries, capacity and recording flag after the call;
\* reallocOK is whether realloc() returned memory.
set_history_size(h, cap, en, newSize, reallocOK) ==
  IF newSize < 0 THEN [history |-> h, capacity |-> cap, enabled |-> en]
  ELSE LET en1 == (newSize # 0)
           h1 == EvictOldest(h, newSize)
       IN  IF ~reallocOK /\ newSize > 0
           THEN [history |-> h1, capacity |-> cap, enabled |-> en1]
           ELSE [history |-> h1, capacity |-> newSize, enabled |-> en1]

\* execute_history_command: the range check, and the entry it duplicates.
ValidHistoryNumber(h, k) == ~(k < 1 \/ k > Len(h))

\* A variant of HistoryEntry that counts from the oldest entry.
HistoryEntry_oldest(h, k) == h[k]

\* execute_history_command: history[current_history_count - command_number].
HistoryEntry(h, k) == h[Len(h) - k + 1]

\* print_history: the lines printed, as <<number, entry>>, in printing order.
print_history(h) == [n \in 1..Len(h) |-> <<n, h[Len(h) - n + 1]>>]

\* ------------------------------------------------------ variables and env
\* The index of the first local variable called name, 0 when there is none.
FindLocal(lv, name) ==
  IF \E k \in 1..Len(lv) : lv[k].name = name
  THEN CHOOSE k \in 1..Len(lv) :
         lv[k].name = name /\ \A j \in 1..(k - 1) : lv[j].name # name
  ELSE 0

\* A variant of cmd_local that binds the empty value it is given.
cmd_local_emptybind(lv, name, value) ==
  LET found == FindLocal(lv, name)
      v == IF value = Null THEN <<>> ELSE value
  IN  IF found # 0
      THEN [lv EXCEPT ![found].value = v]
      ELSE IF Len(lv) < MAX_LOCAL_VARS
           THEN Append(lv, [name |-> name, value |-> v])
           ELSE lv

\* cmd_local: the local variable array after the call.
cmd_local(lv, name, value) ==
  LET found == FindLocal(lv, name)
  IN  IF value = Null \/ value = <<>>
      THEN IF found # 0
           THEN SubSeq(lv, 1, found - 1) \o SubSeq(lv, found + 1, Len(lv))
           ELSE lv
      ELSE IF found # 0
           THEN [lv EXCEPT ![found].value = value]
           ELSE IF Len(lv) < MAX_LOCAL_VARS
                THEN Append(lv, [name |-> name, value |-> value])
                ELSE lv

\* cmd_local compares names with strcmp(localVars[i].name, name): with a NULL
\* name and a non-empty array that is undefined behaviour.
CmdLocalUB(lv, name) == name = Null /\ Len(lv) > 0

\* cmd_export: the environment (a function from names to values) after the call.
cmd_export(e, name, value) ==
  IF name = Null THEN e
  ELSE IF value = Null \/ value = <<>>
       THEN [n \in DOMAIN e \ {name} |-> e[n]]
       ELSE [n \in DOMAIN e \cup {name} |-> IF n = name THEN value ELSE e[n]]

\* getenv()
getenv(e, name) == IF name \in DOMAIN e THEN e[name] ELSE Null

\* A variant of substitute_variable that looks the name up in the local
\* variables first.
substitute_variable_localfirst(e, lv, arg) ==
  IF Len(arg) > 0 /\ arg[1] = "$"
  THEN LET varName == Tail(arg)
           fromEnv == getenv(e, varName)
           found == FindLocal(lv, varName)
           varValue == IF found # 0 THEN lv[found].value
                       ELSE IF fromEnv # Null THEN fromEnv
                       ELSE Null
       IN  IF varValue = Null \/ varValue = <<>> THEN <<>> ELSE varValue
  ELSE arg

\* substitute_variable: the argument after the call.
substitute_variable(e, lv, arg) ==
  IF Len(arg) > 0 /\ arg[1] = "$"
  THEN LET varName == Tail(arg)
           fromEnv == getenv(e, varName)
           found == FindLocal(lv, varName)
           varValue == IF fromEnv # Null THEN fromEnv
                       ELSE IF found # 0 THEN lv[found].value
                       ELSE Null
       IN  IF varValue = Null \/ varValue = <<>> THEN <<>> ELSE varValue
  ELSE arg

\* The two loops that open execute_command: substitute every argument, then
\* keep the non-empty ones.
RECURSIVE DropEmpty(_)
DropEmpty(argv) ==
  IF argv = <<>> THEN <<>>
  ELSE IF argv[1] = <<>> THEN DropEmpty(Tail(argv))
  ELSE <<argv[1]>> \o DropEmpty(Tail(argv))

filtered_argv(e, lv, argv) ==
  DropEmpty([k \in 1..Len(argv) |-> substitute_variable(e, lv, argv[k])])

\* isValidCommand
isValidCommand(argv) ==
  IF Arg(argv, 0) = Null \/ Arg(argv, 0) = <<>> THEN FALSE
  ELSE IF argv[1] = S_cd
       THEN ~(Arg(argv, 1) = Null \/ Arg(argv, 2) # Null)
  ELSE IF argv[1] = S_exit /\ Arg(argv, 1) # Null THEN FALSE
  ELSE IF /\ argv[1] \in {S_export, S_local}
          /\ \/ Arg(argv, 1) = Null
             \/ Arg(argv, 2) # Null
             \/ ~HasChar(argv[2], "=")
       THEN FALSE
  ELSE IF argv[1] = S_history /\ Arg(argv, 1) # Null
       THEN IF argv[2] = S_set
            THEN ~(Arg(argv, 2) = Null \/ Atoi(argv[3]) <= 0 \/ Arg(argv, 3) # Null)
            ELSE FALSE
  ELSE TRUE

\* ------------------------------------------------------------- descriptors
FdSet == 0..MaxFd
Closed == <<"closed", 0>>
Std(n) == <<"std", n>>
PipeR(k) == <<"r", k>>
PipeW(k) == <<"w", k>>
IsPipeEnd(d) == d[1] \in {"r", "w"}

\* The descriptors of the shell when main starts: the three standard streams.
InitFds == [f \in FdSet |-> IF f <= 2 THEN Std(f) ELSE Closed]
AllClosed == [f \in FdSet |-> Closed]

\* A variant of close that leaves the descriptor open.
close_noop(t, fd) == t

\* close(fd): EBADF, and no change, for a number that is not open.
close(t, fd) == IF fd \in FdSet THEN [t EXCEPT ![fd] = Closed] ELSE t

\* dup2(old, new)
dup2(t, old, new) ==
  IF old \in FdSet /\ new \in FdSet /\ t[old] # Closed
  THEN [t EXCEPT ![new] = t[old]]
  ELSE t

\* A loop of close() calls over the values of an array.
RECURSIVE CloseEach(_, _)
CloseEach(t, fds) ==
  IF fds = <<>> THEN t ELSE CloseEach(close(t, fds[1]), Tail(fds))

FreeFds(t) == {f \in FdSet : t[f] = Closed}
LowestFree(t) == CHOOSE f \in FreeFds(t) : \A g \in FreeFds(t) : f <= g

\* pipe(): the read end takes the lowest free number, the write end the next.
PipeOK(t) == Cardinality(FreeFds(t)) >= 2
PipeReadFd(t) == LowestFree(t)
PipeWriteFd(t) == LowestFree([t EXCEPT ![PipeReadFd(t)] = <<"r", 0>>])

\* What a read of a slot of pipefds that no pipe() has filled yet may yield:
\* a standard stream's number or a number that is not open (a pipe
\* descriptor's number adds nothing, the loop that reads it closes them all).
Garbage == {0, 1, 2, MaxFd + 1}

\* ------------------------------------------------------------ the programs
\* The programs execvp() finds, and the directories chdir() finds.
Executables == {<<"p">>, <<"q">>}
Dirs == {<<"d">>}
\* The exit status of a program that ran.
ProgramExitCodes == {0}

\* ------------------------------------------------------------------- state
VARIABLES
  pc,                      \* where the shell is: "prompt" between lines
  input,                   \* dupInp of the parse_and_execute call in progress
  exitCause,               \* why the shell exited
  history,                 \* history[0 .. current_history_count-1]
  history_capacity,
  add_to_history_enabled,
  recall,                  \* the frame of execute_history_command
  hlog,                    \* the last call that could change the history,
                           \*   and whether the last size set was 0
  env,                     \* the process environment
  localVars,               \* localVars[0 .. localVarCount-1]
  cwd,
  commands, num_cmds,      \* the locals of parse_and_execute and of
  i, fd_in, pipefds,       \*   execute_piped_commands (pipefds: the slots
  background, nwait,       \*   filled so far)
  argv,                    \* filtered_argv of execute_command
  shfd,                    \* the descriptor table of the shell
  stage,                   \* the children of the line in progress
  bg                       \* children left by earlier lines, by state

vars == <<pc, input, exitCause, history, history_capacity,
          add_to_history_enabled, recall, hlog, env, localVars, cwd,
          commands, num_cmds, i, fd_in, pipefds, background, nwait, argv,
          shfd, stage, bg>>

current_history_count == Len(history)
localVarCount == Len(localVars)

NoProc == [st |-> "none", fds |-> AllClosed, fdin |-> 0, pfds |-> <<>>,
           argv |-> <<>>, status |-> 0]

NoRecall == [st |-> "none", old |-> TRUE, hist0 |-> <<>>, en0 |-> TRUE, k |-> 0]
NoLog == [op |-> "none", cmd |-> <<>>, n |-> 0, before |-> <<>>,
          enabled |-> TRUE, zeroed |-> FALSE]

\* The environment the shell inherits.
V_A == <<"A">>
InitEnv == [n \in {V_A} |-> <<"e">>]

Init ==
  /\ pc = "prompt" /\ input = <<>> /\ exitCause = "none"
  /\ history = <<>>
  /\ history_capacity = MAX_HISTORY
  /\ add_to_history_enabled = TRUE
  /\ recall = NoRecall /\ hlog = NoLog
  /\ env = InitEnv
  /\ localVars = <<>>
  /\ cwd = <<"/">>
  /\ commands = <<>> /\ num_cmds = 0 /\ i = 0 /\ fd_in = 0 /\ pipefds = <<>>
  /\ background = FALSE /\ nwait = 0 /\ argv = <<>>
  /\ shfd = InitFds
  /\ stage = [k \in {} |-> NoProc]
  /\ bg = [run |-> 0, zom |-> 0]

\* Children of the shell that are not reaped.
Alive(p) == p.st \in {"forked", "running"}
LiveStages == {k \in DOMAIN stage : Alive(stage[k])}
ZombieStages == {k \in DOMAIN stage : stage[k].st = "zombie"}

\* When a new line starts, the children the last line left behind are children
\* of earlier lines.
LeftBehind ==
  [run |-> bg.run + Cardinality(LiveStages),
   zom |-> bg.zom + Cardinality(ZombieStages)]

\* The words of a line joined by single spaces.
RECURSIVE Join(_)
Join(toks) ==
  IF toks = <<>> THEN <<>>
  ELSE IF Len(toks) = 1 THEN toks[1]
  ELSE toks[1] \o <<" ">> \o Join(Tail(toks))

\* A variant of Finish that records the line after substitution.
Finish_substituted(l, r, en) ==
  LET ub == \/ FirstToken(l) = Null
            \/ AddToHistoryUB(history, history_capacity, en, l)
      sl == Join(filtered_argv(env, localVars, process_input(l).argv))
  IN  /\ pc' = IF ub THEN "ub" ELSE "prompt"
      /\ history' = IF FirstToken(l) = Null THEN history
                    ELSE add_to_history(history, history_capacity, en, sl)
      /\ hlog' = [op |-> "append", cmd |-> l, n |-> 0, before |-> history,
                  enabled |-> en, zeroed |-> hlog.zeroed]
      /\ add_to_history_enabled' = IF r.st = "active" THEN r.old ELSE en
      /\ recall' = IF r.st = "active" THEN [r EXCEPT !.st = "done"] ELSE r

\* ------------------------------------------------------ parse_and_execute
\* The end of parse_and_execute for a line that is no built-in, and, when the
\* call was made by execute_history_command (r is its frame), the return into
\* it: add_to_history(dupInp), then the recording flag is restored.  A line of
\* no word leaves firstToken NULL, and strcmp(firstToken, "history") is
\* undefined behaviour.  en is add_to_history_enabled as the call finds it.
Finish(l, r, en) ==
  LET ub == \/ FirstToken(l) = Null
            \/ AddToHistoryUB(history, history_capacity, en, l)
  IN  /\ pc' = IF ub THEN "ub" ELSE "prompt"
      /\ history' = IF FirstToken(l) = Null THEN history
                    ELSE add_to_history(history, history_capacity, en, l)
      /\ hlog' = [op |-> "append", cmd |-> l, n |-> 0, before |-> history,
                  enabled |-> en, zeroed |-> hlog.zeroed]
      /\ add_to_history_enabled' = IF r.st = "active" THEN r.old ELSE en
      /\ recall' = IF r.st = "active" THEN [r EXCEPT !.st = "done"] ELSE r

\* The else branch of parse_and_execute: split on '|'; one command goes to
\* execute_command (substitution, validation, then the fork), several go to
\* execute_piped_commands with background = 0.  No command at all makes
\* pipefds an array of negative length: undefined behaviour.
External(l, r, en, b) ==
  LET cmds == Strtok(l, {"|"})
      n == Len(cmds)
  IN  /\ input' = l /\ commands' = cmds /\ num_cmds' = n
      /\ i' = 0 /\ fd_in' = 0 /\ pipefds' = <<>> /\ nwait' = 0
      /\ stage' = [k \in 0..(n - 1) |-> NoProc]
      /\ bg' = b
      /\ UNCHANGED <<exitCause, history_capacity, env, localVars, cwd, shfd>>
      /\ IF n = 1
         THEN LET pi == process_input(cmds[1])
                  fa == filtered_argv(env, localVars, pi.argv)
              IN  /\ argv' = fa
                  /\ background' = pi.background
                  /\ IF isValidCommand(fa)
                     THEN /\ pi.background => b.run + b.zom < MaxBg
                          /\ pc' = "fork_single"
                          /\ history' = history
                          /\ add_to_history_enabled' = en
                          /\ recall' = r
                          /\ hlog' = hlog
                     ELSE Finish(l, r, en)
         ELSE /\ argv' = <<>>
              /\ background' = FALSE
              /\ pc' = IF n = 0 THEN "ub" ELSE "pipe_loop"
              /\ history' = history
              /\ add_to_history_enabled' = en
              /\ recall' = r
              /\ hlog' = hlog

\* What the interpreter holds besides its processes.
Data == [pc |-> "prompt", exitCause |-> exitCause, history |-> history,
         capacity |-> history_capacity, enabled |-> add_to_history_enabled,
         hlog |-> hlog, env |-> env, localVars |-> localVars, cwd |-> cwd]

\* cmd_exit
cmd_exit(a) ==
  IF Arg(a, 1) # Null THEN Data
  ELSE [Data EXCEPT !.pc = "exited", !.exitCause = "exit"]

\* cmd_cd: chdir() fails on NULL and on a path that is no directory.
cmd_cd(path) ==
  IF path \in Dirs THEN [Data EXCEPT !.cwd = path] ELSE Data

\* A variant of cmd_history_control in which a number out of range switches
\* recording on.
cmd_history_control_reset(a, reallocOK) ==
  IF Arg(a, 1) = Null THEN Data
  ELSE IF a[2] = S_set /\ Arg(a, 2) # Null
  THEN LET newSize == Atoi(a[3])
           res == set_history_size(history, history_capacity,
                                   add_to_history_enabled, newSize, reallocOK)
       IN  [Data EXCEPT !.history = res.history, !.capacity = res.capacity,
                        !.enabled = res.enabled,
                        !.hlog = [op |-> "resize", cmd |-> <<>>, n |-> newSize,
                                  before |-> history,
                                  enabled |-> add_to_history_enabled,
                                  zeroed |-> IF newSize = 0 THEN TRUE
                                             ELSE IF newSize > 0 THEN FALSE
                                             ELSE hlog.zeroed]]
  ELSE [Data EXCEPT !.enabled = TRUE]

\* cmd_history_control, but for the recall of an entry (see Recall).
cmd_history_control(a, reallocOK) ==
  IF Arg(a, 1) = Null THEN Data
  ELSE IF a[2] = S_set /\ Arg(a, 2) # Null
  THEN LET newSize == Atoi(a[3])
           res == set_history_size(history, history_capacity,
                                   add_to_history_enabled, newSize, reallocOK)
       IN  [Data EXCEPT !.history = res.history, !.capacity = res.capacity,
                        !.enabled = res.enabled,
                        !.hlog = [op |-> "resize", cmd |-> <<>>, n |-> newSize,
                                  before |-> history,
                                  enabled |-> add_to_history_enabled,
                                  zeroed |-> IF newSize = 0 THEN TRUE
                                             ELSE IF newSize > 0 THEN FALSE
                                             ELSE hlog.zeroed]]
  ELSE Data

\* A variant of built_in_command whose export also binds the name in the
\* local variables.
built_in_command_exportboth(a, reallocOK) ==
  IF a[1] = S_exit THEN cmd_exit(a)
  ELSE IF a[1] = S_cd THEN cmd_cd(Arg(a, 1))
  ELSE IF a[1] = S_history THEN cmd_history_control(a, reallocOK)
  ELSE IF a[1] = S_export /\ Arg(a, 1) # Null
  THEN LET nv == NameValue(a[2])
       IN  [Data EXCEPT !.env = cmd_export(env, nv.name, nv.value),
                        !.localVars = cmd_local(localVars, nv.name, nv.value)]
  ELSE IF a[1] = S_local /\ Arg(a, 1) # Null
  THEN LET nv == NameValue(a[2])
       IN  IF CmdLocalUB(localVars, nv.name) THEN [Data EXCEPT !.pc = "ub"]
           ELSE [Data EXCEPT !.localVars = cmd_local(localVars, nv.name, nv.value)]
  ELSE Data

\* built_in_command: the chain of comparisons of argv[0].
built_in_command(a, reallocOK) ==
  IF a[1] = S_exit THEN cmd_exit(a)
  ELSE IF a[1] = S_cd THEN cmd_cd(Arg(a, 1))
  ELSE IF a[1] = S_history THEN cmd_history_control(a, reallocOK)
  ELSE IF a[1] = S_export /\ Arg(a, 1) # Null
  THEN LET nv == NameValue(a[2])
       IN  [Data EXCEPT !.env = cmd_export(env, nv.name, nv.value)]
  ELSE IF a[1] = S_local /\ Arg(a, 1) # Null
  THEN LET nv == NameValue(a[2])
       IN  IF CmdLocalUB(localVars, nv.name) THEN [Data EXCEPT !.pc = "ub"]
           ELSE [Data EXCEPT !.localVars = cmd_local(localVars, nv.name, nv.value)]
  ELSE Data

\* The number k of a line "history k" that reaches execute_history_command
\* with k in range, and 0 for every other line.
RecallNumber(l) ==
  LET a == process_input(l).argv
  IN  IF /\ FirstToken(l) # Null /\ isBuiltInCommand(FirstToken(l))
         /\ a[1] = S_history /\ Arg(a, 1) # Null
         /\ ~(a[2] = S_set /\ Arg(a, 2) # Null)
         /\ ValidHistoryNumber(history, Atoi(a[2]))
      THEN Atoi(a[2])
      ELSE 0

\* The built-in branch of parse_and_execute, for every line but a recall in
\* range: it runs to its end in one step.
BuiltIn(l, b) ==
  \E reallocOK \in BOOLEAN :
    LET a == process_input(l).argv
        d == IF FirstToken(l) # S_history \/ Arg(a, 1) # Null
             THEN built_in_command(a, reallocOK)
             ELSE Data
    IN  /\ pc' = d.pc /\ exitCause' = d.exitCause
        /\ history' = d.history /\ history_capacity' = d.capacity
        /\ add_to_history_enabled' = d.enabled /\ hlog' = d.hlog
        /\ env' = d.env /\ localVars' = d.localVars /\ cwd' = d.cwd
        /\ input' = l /\ recall' = NoRecall
        /\ commands' = <<>> /\ num_cmds' = 0 /\ i' = 0 /\ fd_in' = 0
        /\ pipefds' = <<>> /\ background' = FALSE /\ nwait' = 0 /\ argv' = <<>>
        /\ stage' = [k \in {} |-> NoProc]
        /\ bg' = b
        /\ UNCHANGED shfd

\* execute_history_command with a number in range: the entry is duplicated,
\* recording is switched off and parse_and_execute runs on the copy.  Every
\* entry is a line that is no built-in (see Finish); were one a built-in, the
\* nested call would run a built-in handler, which this model stops at.
Recall(l, b) ==
  LET k == RecallNumber(l)
      cmd == HistoryEntry(history, k)
      r == [st |-> "active", old |-> add_to_history_enabled,
            hist0 |-> history, en0 |-> add_to_history_enabled, k |-> k]
  IN  IF FirstToken(cmd) # Null /\ isBuiltInCommand(FirstToken(cmd))
      THEN /\ pc' = "recall_builtin"
           /\ UNCHANGED <<input, exitCause, history, history_capacity,
                          add_to_history_enabled, recall, hlog, env, localVars,
                          cwd, commands, num_cmds, i, fd_in, pipefds,
                          background, nwait, argv, shfd, stage, bg>>
      ELSE External(cmd, r, FALSE, b)

\* parse_and_execute(l), called by main, up to the first point where the
\* shell waits for the kernel.
ParseAndExecute(l) ==
  /\ pc = "prompt"
  /\ IF FirstToken(l) # Null /\ isBuiltInCommand(FirstToken(l))
     THEN IF RecallNumber(l) # 0 THEN Recall(l, LeftBehind)
          ELSE BuiltIn(l, LeftBehind)
     ELSE External(l, NoRecall, add_to_history_enabled, LeftBehind)

\* The shell has neither exited nor left the behaviour the model follows.
ShellRuns == pc \notin {"exited", "ub", "recall_builtin"}

\* --------------------------------------------------------- execute_command
\* fork() of execute_command returns in the parent: a detached command has its
\* pid printed and the call returns, another is waited for with waitpid().
ForkSingle ==
  /\ pc = "fork_single"
  /\ stage' = [stage EXCEPT ![0] = [NoProc EXCEPT !.st = "forked",
                                                  !.fds = shfd,
                                                  !.argv = argv]]
  /\ IF background
     THEN Finish(input, recall, add_to_history_enabled)
     ELSE /\ pc' = "wait_single"
          /\ UNCHANGED <<history, add_to_history_enabled, recall, hlog>>
  /\ UNCHANGED <<input, exitCause, history_capacity, env, localVars, cwd,
                 commands, num_cmds, i, fd_in, pipefds, background, nwait,
                 argv, shfd, bg>>

\* fork() fails, in execute_command (exit(-1)) or in execute_piped_commands
\* (exit(EXIT_FAILURE)): the shell exits.
ForkFail ==
  /\ pc \in {"fork_single", "pipe_loop"}
  /\ pc' = "exited"
  /\ exitCause' = "fork"
  /\ UNCHANGED <<input, history, history_capacity, add_to_history_enabled,
                 recall, hlog, env, localVars, cwd, commands, num_cmds, i,
                 fd_in, pipefds, background, nwait, argv, shfd, stage, bg>>

\* waitpid(pid, &status, 0) returns, and parse_and_execute ends.
WaitSingle ==
  /\ pc = "wait_single"
  /\ stage[0].st = "zombie"
  /\ stage' = [stage EXCEPT ![0].st = "reaped"]
  /\ Finish(input, recall, add_to_history_enabled)
  /\ UNCHANGED <<input, exitCause, history_capacity, env, localVars, cwd,
                 commands, num_cmds, i, fd_in, pipefds, background, nwait,
                 argv, shfd, bg>>

\* The child of execute_command: execvp(filtered_argv[0], filtered_argv), and
\* exit(-1) when it fails.
ChildExecSingle ==
  /\ ShellRuns
  /\ num_cmds = 1
  /\ stage[0].st = "forked"
  /\ stage' = [stage EXCEPT ![0] =
                 IF Arg(@.argv, 0) \in Executables
                 THEN [@ EXCEPT !.st = "running"]
                 ELSE [@ EXCEPT !.st = "zombie", !.status = 255,
                                !.fds = AllClosed]]
  /\ UNCHANGED <<pc, input, exitCause, history, history_capacity,
                 add_to_history_enabled, recall, hlog, env, localVars, cwd,
                 commands, num_cmds, i, fd_in, pipefds, background, nwait,
                 argv, shfd, bg>>

\* -------------------------------------------------- execute_piped_commands
\* pipe() fails: exit(EXIT_FAILURE).
PipeFail ==
  /\ pc = "pipe_loop"
  /\ i < num_cmds - 1
  /\ pc' = "exited"
  /\ exitCause' = "pipe"
  /\ UNCHANGED <<input, history, history_capacity, add_to_history_enabled,
                 recall, hlog, env, localVars, cwd, commands, num_cmds, i,
                 fd_in, pipefds, background, nwait, argv, shfd, stage, bg>>

\* The head of the loop body for command i: pipe(pipefds + 2i) when i is not
\* the last command, then fork().  The child starts with a copy of the
\* descriptor table, of fd_in and of pipefds.
PipeFork ==
  /\ pc = "pipe_loop"
  /\ LET need == i < num_cmds - 1
         r == PipeReadFd(shfd)
         w == PipeWriteFd(shfd)
         t == IF need THEN [shfd EXCEPT ![r] = PipeR(i), ![w] = PipeW(i)]
              ELSE shfd
         pf == IF need THEN pipefds \o <<r, w>> ELSE pipefds
     IN  /\ need => PipeOK(shfd)
         /\ shfd' = t
         /\ pipefds' = pf
         /\ stage' = [stage EXCEPT ![i] = [NoProc EXCEPT !.st = "forked",
                                                         !.fds = t,
                                                         !.fdin = fd_in,
                                                         !.pfds = pf]]
  /\ pc' = "pipe_parent"
  /\ UNCHANGED <<input, exitCause, history, history_capacity,
                 add_to_history_enabled, recall, hlog, env, localVars, cwd,
                 commands, num_cmds, i, fd_in, background, nwait, argv, bg>>

\* The parent's branch of the loop body: close(fd_in) when it is not 0, then,
\* when i is not the last command, close the write end of pipe i and keep its
\* read end in fd_in.
PipeParentClose ==
  /\ pc = "pipe_parent"
  /\ LET need == i < num_cmds - 1
         t1 == IF fd_in # 0 THEN close(shfd, fd_in) ELSE shfd
     IN  /\ shfd' = IF need THEN close(t1, pipefds[i * 2 + 2]) ELSE t1
         /\ fd_in' = IF need THEN pipefds[i * 2 + 1] ELSE fd_in
  /\ i' = i + 1
  /\ pc' = IF i + 1 < num_cmds THEN "pipe_loop" ELSE "pipe_closeall"
  /\ UNCHANGED <<input, exitCause, history, history_capacity,
                 add_to_history_enabled, recall, hlog, env, localVars, cwd,
                 commands, num_cmds, pipefds, background, nwait, argv, stage,
                 bg>>

\* "Parent closes all pipes": close(pipefds[j]) for every slot; then the wait
\* loop starts, or (background) the pid is printed and the call returns.
PipeCloseAll ==
  /\ pc = "pipe_closeall"
  /\ shfd' = CloseEach(shfd, pipefds)
  /\ nwait' = 0
  /\ IF ~background
     THEN /\ pc' = "pipe_wait"
          /\ UNCHANGED <<history, add_to_history_enabled, recall, hlog>>
     ELSE Finish(input, recall, add_to_history_enabled)
  /\ UNCHANGED <<input, exitCause, history_capacity, env, localVars, cwd,
                 commands, num_cmds, i, fd_in, pipefds, background, argv,
                 stage, bg>>

\* One wait(NULL) of the wait loop: it returns when any child of the shell
\* has terminated, a stage of this pipeline or a child of an earlier line;
\* after num_cmds of them the call returns and parse_and_execute ends.
PipeWait ==
  /\ pc = "pipe_wait"
  /\ \E who \in ZombieStages \cup (IF bg.zom > 0 THEN {0 - 1} ELSE {}) :
       IF who \in DOMAIN stage
       THEN /\ stage' = [stage EXCEPT ![who].st = "reaped"]
            /\ bg' = bg
       ELSE /\ stage' = stage
            /\ bg' = [bg EXCEPT !.zom = @ - 1]
  /\ nwait' = nwait + 1
  /\ IF nwait + 1 = num_cmds
     THEN Finish(input, recall, add_to_history_enabled)
     ELSE /\ pc' = "pipe_wait"
          /\ UNCHANGED <<history, add_to_history_enabled, recall, hlog>>
  /\ UNCHANGED <<input, exitCause, history_capacity, env, localVars, cwd,
                 commands, num_cmds, i, fd_in, pipefds, background, argv,
                 shfd>>

\* A variant of ChildCloseList for a child that closes nothing in its loop.
ChildCloseList_none(k, g) == <<>>

\* The descriptors child k closes in its loop over all 2*num_cmds-2 slots of
\* pipefds: the slots filled when it was forked hold what pipe() wrote, the
\* others are read uninitialised (g gives what each read yields).
ChildCloseList(k, g) ==
  [j \in 1..(2 * num_cmds - 2) |->
     IF j <= Len(stage[k].pfds) THEN stage[k].pfds[j] ELSE g[j]]

\* The descriptor table of child k when it calls execvp.
ChildFdsAtExec(k, g) ==
  LET c == stage[k]
      t1 == IF c.fdin # 0 THEN close(dup2(c.fds, c.fdin, 0), c.fdin)
            ELSE c.fds
      t2 == IF k < num_cmds - 1
            THEN close(dup2(t1, c.pfds[k * 2 + 2], 1), c.pfds[k * 2 + 2])
            ELSE t1
  IN  CloseEach(t2, ChildCloseList(k, g))

\* The arguments child k passes to execvp: process_input(commands[k]).
ChildArgv(k) == process_input(commands[k + 1]).argv

\* The child's branch of the loop body, to its execvp: the redirections, the
\* closes, the tokenizer, then the new image, or exit(EXIT_FAILURE) when
\* execvp fails (with no word at all execvp is handed a NULL file name and the
\* child may also die of a signal).
ChildExecPiped(k) ==
  /\ ShellRuns
  /\ num_cmds >= 2
  /\ stage[k].st = "forked"
  /\ \E g \in [(Len(stage[k].pfds) + 1)..(2 * num_cmds - 2) -> Garbage] :
     \E failStatus \in (IF ChildArgv(k) = <<>> THEN {1, 139} ELSE {1}) :
       stage' = [stage EXCEPT ![k] =
                   IF Arg(ChildArgv(k), 0) \in Executables
                   THEN [@ EXCEPT !.st = "running",
                                  !.fds = ChildFdsAtExec(k, g),
                                  !.argv = ChildArgv(k),
                                  !.fdin = 0, !.pfds = <<>>]
                   ELSE [@ EXCEPT !.st = "zombie", !.status = failStatus,
                                  !.fds = AllClosed,
                                  !.argv = ChildArgv(k),
                                  !.fdin = 0, !.pfds = <<>>]]
  /\ UNCHANGED <<pc, input, exitCause, history, history_capacity,
                 add_to_history_enabled, recall, hlog, env, localVars, cwd,
                 commands, num_cmds, i, fd_in, pipefds, background, nwait,
                 argv, shfd, bg>>

\* ------------------------------------------------------------ the children
\* A program that runs terminates: its descriptors are closed and it stays a
\* zombie until the shell waits for it.
ChildExit(k) ==
  /\ ShellRuns
  /\ stage[k].st = "running"
  /\ \E code \in ProgramExitCodes :
       stage' = [stage EXCEPT ![k] = [@ EXCEPT !.st = "zombie",
                                               !.status = code,
                                               !.fds = AllClosed]]
  /\ UNCHANGED <<pc, input, exitCause, history, history_capacity,
                 add_to_history_enabled, recall, hlog, env, localVars, cwd,
                 commands, num_cmds, i, fd_in, pipefds, background, nwait,
                 argv, shfd, bg>>

\* A child left by an earlier line terminates.
BgExit ==
  /\ ShellRuns
  /\ bg.run > 0
  /\ bg' = [run |-> bg.run - 1, zom |-> bg.zom + 1]
  /\ UNCHANGED <<pc, input, exitCause, history, history_capacity,
                 add_to_history_enabled, recall, hlog, env, localVars, cwd,
                 commands, num_cmds, i, fd_in, pipefds, background, nwait,
                 argv, shfd, stage>>

\* ------------------------------------------------------------------- lines
\* "p &"
L_bg == <<"p", " ", "&">>
\* "p $A | n | q"
L_p3 == <<"p", " ", "$", "A", " ", "|", " ", "n", " ", "|", " ", "q">>
\* "p | q &"
L_p2d == <<"p", " ", "|", " ", "q", " ", "&">>
\* "exit"
L_exit == S_exit

\* The lines main reads in the specification of the pipeline executor.
PipeLines == {L_bg, L_p3, L_p2d, L_exit}

\* --------------------------------------------------------- specifications
ReadLine == \E l \in PipeLines : ParseAndExecute(l)
StageExec == \E k \in DOMAIN stage : ChildExecPiped(k)
StageExit == \E k \in DOMAIN stage : ChildExit(k)

Next ==
  \/ ReadLine
  \/ ForkSingle
  \/ ForkFail
  \/ PipeFail
  \/ PipeFork
  \/ PipeParentClose
  \/ PipeCloseAll
  \/ PipeWait
  \/ ChildExecSingle
  \/ StageExec
  \/ StageExit
  \/ BgExit

Spec == Init /\ [][Next]_vars

\* The lines main reads in the specification of the history and the variables:
\* "p", "q $A", "n" (no such program), and the built-ins.
L_p == <<"p">>
L_qA == <<"q", " ", "$", "A">>
L_n == <<"n">>
L_history == S_history
L_history1 == S_history \o <<" ", "1">>
L_history2 == S_history \o <<" ", "2">>
L_set0 == S_history \o <<" ">> \o S_set \o <<" ", "0">>
L_set2 == S_history \o <<" ">> \o S_set \o <<" ", "2">>
L_exportAx == S_export \o <<" ", "A", "=", "x">>
L_exportA == S_export \o <<" ", "A", "=">>
L_localAl == S_local \o <<" ", "A", "=", "l">>
L_localA == S_local \o <<" ", "A", "=">>
\* "history 0", "history foo", "history set abc", "history set -1",
\* "history set"
L_history0 == S_history \o <<" ", "0">>
L_historyfoo == S_history \o <<" ", "f", "o", "o">>
L_setabc == S_history \o <<" ">> \o S_set \o <<" ", "a", "b", "c">>
L_setneg == S_history \o <<" ">> \o S_set \o <<" ", "-", "1">>
L_setnone == S_history \o <<" ">> \o S_set

HistLines == {L_p, L_qA, L_n, L_history, L_history1, L_history2, L_set0,
              L_set2, L_exportAx, L_exportA, L_localAl, L_localA}

\* The lines main reads in the specification of the "history" lines of every
\* shape.
HistShapeLines == {L_p, L_qA, L_history, L_history0, L_history1, L_history2,
                   L_historyfoo, L_set0, L_set2, L_setabc, L_setneg,
                   L_setnone, L_localAl}

ReadLineH == \E l \in HistLines : ParseAndExecute(l)

NextH ==
  \/ ReadLineH
  \/ ForkSingle
  \/ ForkFail
  \/ WaitSingle
  \/ ChildExecSingle
  \/ StageExit

SpecHist == Init /\ [][NextH]_vars

ReadLineHS == \E l \in HistShapeLines : ParseAndExecute(l)

NextHS ==
  \/ ReadLineHS
  \/ ForkSingle
  \/ ForkFail
  \/ WaitSingle
  \/ ChildExecSingle
  \/ StageExit

SpecHistShape == Init /\ [][NextHS]_vars

\* ------------------------------------------------------------ descriptors
\* Whether a descriptor table holds an open file description.
Holds(t, d) == \E f \in FdSet : t[f] = d
\* The line in progress (or just ended) is a pipeline of several commands.
IsPipeline == num_cmds >= 2
\* The last token of the line is the detach marker.
MarkedDetached(l) == process_input(l).background
\* Child k has terminated.
Terminated(k) == stage[k].st \in {"zombie", "reaped"}
\* Child k has been through its execvp call.
PastExec(k) == stage[k].st \in {"running", "zombie", "reaped"}
\* Child k called execvp and it failed.
ExecFailed(k) == PastExec(k) /\ Arg(stage[k].argv, 0) \notin Executables

\* ------------------------------------------------------------------ claims

\* C1: in a pipeline of N >= 2 stages, when stage k has replaced its image its
\* standard input is the read end of pipe k-1 (the inherited standard input
\* for k = 0) and its standard output is the write end of pipe k (the
\* inherited standard output for k = N-1).
C1_StageWiring ==
  \A k \in DOMAIN stage :
    (IsPipeline /\ stage[k].st = "running") =>
      /\ stage[k].fds[0] = (IF k = 0 THEN Std(0) ELSE PipeR(k - 1))
      /\ stage[k].fds[1] = (IF k = num_cmds - 1 THEN Std(1) ELSE PipeW(k))

\* The shell holds no pipe descriptor.
ShellHoldsNoPipe == \A f \in FdSet : ~IsPipeEnd(shfd[f])
\* A child that has replaced its image holds no pipe descriptor but on its
\* standard input (the read end of the pipe before it) and its standard output
\* (the write end of the pipe after it).
ExecedHoldOnlyOwnEnds ==
  \A k \in DOMAIN stage :
    (IsPipeline /\ stage[k].st = "running") =>
      \A f \in FdSet :
        IsPipeEnd(stage[k].fds[f]) =>
          \/ f = 0 /\ k > 0 /\ stage[k].fds[f] = PipeR(k - 1)
          \/ f = 1 /\ k < num_cmds - 1 /\ stage[k].fds[f] = PipeW(k)
\* The shell is at its wait loop or has returned from the pipeline.
AtWaitOrReturn == IsPipeline /\ pc \in {"pipe_wait", "prompt"}

\* C2 as stated: once stage k+1 has been spawned, the write end of pipe k is
\* open in no process but stage k and the read end of pipe k in no process but
\* stage k+1; the shell holds no pipe descriptor at its wait or return point;
\* no child holds a pipe descriptor other than its redirected standard input
\* and output when it execs.
C2_OwnershipFromSpawn ==
  /\ \A k \in DOMAIN stage :
       (IsPipeline /\ k + 1 \in DOMAIN stage /\ stage[k + 1].st # "none") =>
         /\ ~Holds(shfd, PipeW(k)) /\ ~Holds(shfd, PipeR(k))
         /\ \A j \in DOMAIN stage :
              /\ j # k => ~Holds(stage[j].fds, PipeW(k))
              /\ j # k + 1 => ~Holds(stage[j].fds, PipeR(k))
  /\ AtWaitOrReturn => ShellHoldsNoPipe
  /\ ExecedHoldOnlyOwnEnds

\* C2, amended: once stage k+1 has been spawned the write end of pipe k is open
\* in no process but stage k; the read end of pipe k is open in no process but
\* stage k+1 once, besides, the shell has made the closes that follow that
\* fork and stage k has made its own closes (it has reached its execvp); the
\* shell holds no pipe descriptor at its wait or return point; no child holds
\* a pipe descriptor other than its redirected standard input and output when
\* it execs.
C2_Ownership ==
  /\ \A k \in DOMAIN stage :
       (IsPipeline /\ k + 1 \in DOMAIN stage /\ stage[k + 1].st # "none") =>
         /\ ~Holds(shfd, PipeW(k))
         /\ \A j \in DOMAIN stage : j # k => ~Holds(stage[j].fds, PipeW(k))
         /\ (i > k + 1 /\ PastExec(k)) =>
              /\ ~Holds(shfd, PipeR(k))
              /\ \A j \in DOMAIN stage :
                   j # k + 1 => ~Holds(stage[j].fds, PipeR(k))
  /\ AtWaitOrReturn => ShellHoldsNoPipe
  /\ ExecedHoldOnlyOwnEnds

\* C2's case: the shell waits for a pipeline of three stages whose middle
\* stage is still to exec and holds both ends it was given, while the first
\* stage runs with the write end of pipe 0 as its standard output.
C2_Witness ==
  /\ pc = "pipe_wait" /\ num_cmds = 3
  /\ stage[0].st = "running" /\ stage[0].fds[1] = PipeW(0)
  /\ stage[2].st = "running" /\ stage[2].fds[0] = PipeR(1)
  /\ stage[1].st = "forked" /\ Holds(stage[1].fds, PipeR(0))
  /\ Holds(stage[1].fds, PipeW(1))

\* C3: when the call that executes a foreground (not detached) line has
\* returned, every stage process of that line has terminated, whatever
\* children earlier lines left behind.
C3_ForegroundWaitsForAll ==
  (pc = "prompt" /\ num_cmds >= 1 /\ ~MarkedDetached(input)) =>
    \A k \in DOMAIN stage : Terminated(k)

\* C4: for a line of N >= 2 pipe-separated commands whose last token is "&",
\* the shell returns without waiting for any stage of the pipeline.
C4_DetachedPipelineNotWaited ==
  (IsPipeline /\ MarkedDetached(input)) =>
    /\ pc # "pipe_wait"
    /\ \A k \in DOMAIN stage : stage[k].st # "reaped"

\* C5: a failure of fork() or pipe() aborts the line only: the shell exits on
\* nothing but the built-in exit.
C5_OnlyExitTerminates == pc = "exited" => exitCause = "exit"

\* C6: when execvp fails in stage k of a foreground line, that child alone
\* exits, with a status that is not 0; every other stage is spawned and has
\* been through its own execvp, and all the stages have terminated, by the
\* time the call returns and the shell reads the next line.
C6_ExecFailureConfined ==
  \A k \in DOMAIN stage :
    (ExecFailed(k) /\ ~MarkedDetached(input)) =>
      /\ Terminated(k) /\ stage[k].status # 0
      /\ pc = "prompt" =>
           \A j \in DOMAIN stage :
             /\ PastExec(j)
             /\ Terminated(j)
             /\ (j # k /\ ~ExecFailed(j)) => stage[j].status = 0

\* C7: every stage of a pipeline is handed to execvp with its arguments
\* substituted as execute_command substitutes those of a single command:
\* each token that begins with '$' replaced by its value (environment, else
\* local variables, else empty).
C7_StagesSubstituted ==
  \A k \in DOMAIN stage :
    (IsPipeline /\ PastExec(k)) =>
      stage[k].argv =
        filtered_argv(env, localVars, process_input(commands[k + 1]).argv)

\* The value the claims give a token: that of the environment when the name
\* is bound there, else that of the local variable of that name, else empty.
ClaimedValue(tok) ==
  IF Len(tok) > 0 /\ tok[1] = "$"
  THEN LET name == Tail(tok)
       IN  IF name \in DOMAIN env THEN env[name]
           ELSE IF \E b \in 1..Len(localVars) : localVars[b].name = name
           THEN localVars[CHOOSE b \in 1..Len(localVars) :
                            localVars[b].name = name].value
           ELSE <<>>
  ELSE tok

\* C8: while the shell waits for a single command, the arguments the command
\* was given are the tokens of the line with every "$NAME" resolved to the
\* environment's value when NAME is bound there, whatever the local variables
\* hold, and to the local variable's value otherwise, after any sequence of
\* export and local lines.
C8_Precedence ==
  (pc = "wait_single" /\ stage[0].st # "none") =>
    stage[0].argv =
      DropEmpty([j \in 1..Len(process_input(commands[1]).argv) |->
                   ClaimedValue(process_input(commands[1]).argv[j])])

\* C8's case: "q $A" runs with A exported as x and also a local variable with
\* another value, and q is given x.
C8_Witness ==
  /\ pc = "wait_single" /\ input = L_qA
  /\ V_A \in DOMAIN env /\ env[V_A] = <<"x">>
  /\ FindLocal(localVars, V_A) # 0
  /\ localVars[FindLocal(localVars, V_A)].value = <<"l">>
  /\ stage[0].argv = <<(<<"q">>), (<<"x">>)>>

\* C9: a recall "history k" with k in range leaves the history entries as they
\* were before it, while it runs and when it has returned, and leaves the
\* recording flag as it was before it.
C9_RecallLeavesHistory ==
  /\ recall.st \in {"active", "done"} => history = recall.hist0
  /\ recall.st = "done" => add_to_history_enabled = recall.en0

\* C9's case: "history 2" has returned; the line it ran is not the newest
\* entry, so that appending it would have changed the history.
C9_Witness ==
  /\ pc = "prompt" /\ recall.st = "done" /\ recall.k = 2
  /\ Len(history) >= 2
  /\ input = history[Len(history) - 1] /\ input # Last(history)
  /\ add_to_history_enabled

\* C10: no two adjacent history entries are equal, and an append of a line
\* equal to the newest entry leaves the history as it was.
C10_Coalesced ==
  /\ \A j \in 1..(Len(history) - 1) : history[j] # history[j + 1]
  /\ (hlog.op = "append" /\ hlog.before # <<>>
        /\ Last(hlog.before) = hlog.cmd) => history = hlog.before

\* C10's case: with recording enabled, the line that has just ended was the
\* newest entry already.
C10_Witness ==
  /\ pc = "prompt" /\ hlog.op = "append" /\ hlog.enabled
  /\ hlog.before # <<>> /\ Last(hlog.before) = hlog.cmd
  /\ Len(history) >= 2

\* ------------------------------------------------------ claims on history
\* The newest n entries of h, in their order.
NewestOf(h, n) == SubSeq(h, Len(h) - n + 1, Len(h))
Min(a, b) == IF a < b THEN a ELSE b

\* C11: eviction is oldest-first.  After set_history_size(n), n >= 0, the
\* history is the newest n entries it held before (all of them when it held
\* fewer), in their order; after an append that changed the history it is the
\* newest entries of the old history followed by the line, as many as the
\* capacity allows.
C11_OldestFirst ==
  /\ (hlog.op = "resize" /\ hlog.n >= 0) =>
       history = NewestOf(hlog.before, Min(hlog.n, Len(hlog.before)))
  /\ (hlog.op = "append" /\ history # hlog.before) =>
       history = NewestOf(Append(hlog.before, hlog.cmd),
                          Min(Len(hlog.before) + 1, history_capacity))

\* C11's case: with capacity 2 and two entries a, b, the append of a third
\* line c has left [b, c].
C11_Witness ==
  /\ pc = "prompt" /\ history_capacity = 2
  /\ hlog.op = "append" /\ Len(hlog.before) = 2
  /\ hlog.before[1] # hlog.before[2] /\ hlog.cmd # hlog.before[1]
  /\ hlog.cmd # hlog.before[2]
  /\ history = <<hlog.before[2], hlog.cmd>>

\* C12: right after "history set 0" the history holds the entries it held
\* before.
C12_SetZeroKeepsEntries ==
  (hlog.op = "resize" /\ hlog.n = 0) => history = hlog.before

\* A step of main that reads line l: from the prompt, parse_and_execute(l)
\* runs the built-in branch (a recall in range leaves the recalled entry, not
\* l, in input).
ReadsBuiltIn(l) == pc = "prompt" /\ input' = l /\ num_cmds' = 0

\* C13: from "history set 0" to the next "history set n" with n > 0, recording
\* is off whenever no recall is in progress, no step changes the history, and
\* a resize leaves the local variables as they are.
C13_ZeroDisables ==
  [][/\ hlog'.zeroed =>
          (recall'.st # "active" => ~add_to_history_enabled')
     /\ (hlog.zeroed /\ hlog'.zeroed) => history' = history
     /\ (\E l \in {L_set0, L_set2, L_setabc, L_setneg} : ReadsBuiltIn(l)) =>
          localVars' = localVars]_vars

\* C13's case: after "history set 0", with a local variable bound, the line
\* "p" has been executed to its end.
C13_Witness ==
  /\ pc = "prompt" /\ hlog.zeroed /\ hlog.op = "append" /\ hlog.cmd = L_p
  /\ input = L_p /\ stage[0].st = "reaped"
  /\ localVars # <<>>

\* The number of a line "history k", for the lines read here.
RecallArg(l) == Atoi(process_input(l).argv[2])
RecallLines == {L_history0, L_history1, L_history2}

\* C14: a recall whose number is below 1 or above the number of entries
\* executes nothing and spawns no process, and leaves the history, the
\* recording flag and the local variables as they are.
C14_OutOfRangeRecall ==
  [][\A l \in RecallLines :
       (ReadsBuiltIn(l)
          /\ (RecallArg(l) < 1 \/ RecallArg(l) > Len(history))) =>
         /\ pc' = "prompt"
         /\ history' = history
         /\ history_capacity' = history_capacity
         /\ add_to_history_enabled' = add_to_history_enabled
         /\ localVars' = localVars /\ env' = env /\ cwd' = cwd
         /\ \A k \in DOMAIN stage' : stage'[k].st = "none"
         /\ bg' = LeftBehind]_vars

\* C14's case: "history 2" has been read with one entry in the history.
C14_Witness ==
  /\ pc = "prompt" /\ input = L_history2 /\ Len(history) = 1
  /\ recall.st = "none" /\ num_cmds = 0

\* The entry print_history labels k.
Labelled(h, k) ==
  (CHOOSE e \in {print_history(h)[n] : n \in 1..Len(h)} : e[1] = k)[2]

\* C15: the listing gives the entries newest first under the numbers 1, 2, ..,
\* and a recall in range executes the entry the listing of the history as it
\* was gives that number.
C15_SameNumbering ==
  /\ Len(print_history(history)) = Len(history)
  /\ \A n \in 1..Len(history) :
       /\ print_history(history)[n][1] = n
       /\ print_history(history)[n][2] = history[Len(history) + 1 - n]
  /\ recall.st \in {"active", "done"} =>
       input = Labelled(recall.hist0, recall.k)

\* C15's case: with three different entries, "history 2" has executed the
\* middle one.
C15_Witness ==
  /\ pc = "prompt" /\ recall.st = "done" /\ recall.k = 2
  /\ Len(recall.hist0) = 3
  /\ recall.hist0[1] # recall.hist0[2] /\ recall.hist0[2] # recall.hist0[3]
  /\ recall.hist0[1] # recall.hist0[3]
  /\ input = recall.hist0[2]

\* A token is a non-negative integer: digits only.
IsNumber(t) == Len(t) > 0 /\ \A k \in 1..Len(t) : IsDigit(t[k])
\* The shapes of a "history" line the claims accept: no argument, "set n" with
\* n a non-negative integer, or one number.
ValidHistoryShape(a) ==
  \/ Len(a) = 1
  \/ Len(a) = 3 /\ a[2] = S_set /\ IsNumber(a[3])
  \/ Len(a) = 2 /\ IsNumber(a[2])

\* C18: a "history" line of any other shape leaves the history entries, the
\* capacity and the recording flag as they are and executes nothing.
C18_InvalidHistoryLine ==
  [][\A l \in HistShapeLines :
       (ReadsBuiltIn(l) /\ process_input(l).argv[1] = S_history
          /\ ~ValidHistoryShape(process_input(l).argv)) =>
         /\ pc' = "prompt"
         /\ history' = history
         /\ history_capacity' = history_capacity
         /\ add_to_history_enabled' = add_to_history_enabled
         /\ \A k \in DOMAIN stage' : stage'[k].st = "none"]_vars

\* ------------------------------------------- the built-ins on variables
V_B == <<"B">>

\* printf("%d"): the decimal digits of n >= 0.
RECURSIVE Decimal(_)
Decimal(n) ==
  IF n < 10 THEN <<Digits[n + 1]>>
  ELSE Decimal(n \div 10) \o <<Digits[(n % 10) + 1]>>

\* The names v1, v2, .. of a script that fills localVars, its j-th line
\* "local vj=1", and localVars after its first j lines.
FillName(j) == <<"v">> \o Decimal(j)
FillLine(j) == S_local \o <<" ">> \o FillName(j) \o <<"=", "1">>
FilledTo(j) == [k \in 1..j |-> [name |-> FillName(k), value |-> <<"1">>]]

\* "local A=k", "local B=m", "local B=", "local v1=", "local =", "local A",
\* "export A=x B=y", "export A", "export", "cd", "cd d", "cd d d", "vars"
L_localAk == S_local \o <<" ", "A", "=", "k">>
L_localBm == S_local \o <<" ", "B", "=", "m">>
L_localB == S_local \o <<" ", "B", "=">>
L_localv1 == S_local \o <<" ", "v", "1", "=">>
L_localEq == S_local \o <<" ", "=">>
L_localAonly == S_local \o <<" ", "A">>
L_exportAxBy == S_export \o <<" ", "A", "=", "x", " ", "B", "=", "y">>
L_exportAonly == S_export \o <<" ", "A">>
L_export == S_export
L_cd == S_cd
L_cdd == S_cd \o <<" ", "d">>
L_cddd == S_cd \o <<" ", "d", " ", "d">>
L_vars == S_vars

\* The lines main reads in the specification of the built-ins on variables.
VarLines == {L_localAl, L_localAk, L_localBm, L_localA, L_localB, L_localv1,
             L_localEq, L_localAonly, L_exportAx, L_exportA, L_exportAxBy,
             L_exportAonly, L_export, L_cd, L_cdd, L_cddd, L_vars}

\* The filling script is at one of its lines but the first.
Filling ==
  /\ Len(localVars) \in 1..(MAX_LOCAL_VARS - 1)
  /\ localVars = FilledTo(Len(localVars))

\* main reads the next line of the filling script.
FillStore ==
  /\ Len(localVars) < MAX_LOCAL_VARS
  /\ localVars = FilledTo(Len(localVars))
  /\ ParseAndExecute(FillLine(Len(localVars) + 1))

\* main reads any other line, before or after the filling script.
ReadLineV == ~Filling /\ \E l \in VarLines : ParseAndExecute(l)

NextV ==
  \/ ReadLineV
  \/ FillStore

SpecVars == Init /\ [][NextV]_vars

\* C16: a "cd" line with no argument, or with two or more, leaves the working
\* directory as it is.
C16_CdArgumentCount ==
  [][\A l \in VarLines :
       (ReadsBuiltIn(l) /\ process_input(l).argv[1] = S_cd
          /\ Len(process_input(l).argv) # 2) => cwd' = cwd]_vars

\* An "export" or "local" line is one NAME=VALUE token with a name.
WellFormedAssignment(a) ==
  /\ Len(a) = 2
  /\ HasChar(a[2], "=")
  /\ a[2][1] # "="

\* C17: an "export" or "local" line that is not a single NAME=VALUE token with
\* a non-empty NAME changes neither the environment nor the local variables.
C17_MalformedAssignment ==
  [][\A l \in VarLines :
       (ReadsBuiltIn(l)
          /\ process_input(l).argv[1] \in {S_export, S_local}
          /\ ~WellFormedAssignment(process_input(l).argv)) =>
         /\ env' = env
         /\ localVars' = localVars]_vars

\* The lines "local NAME=VALUE" with a name and a value that are read.
SetLines == {L_localAl, L_localAk, L_localBm}
\* The store lv2 is lv after name has been set to value: one binding of the
\* name, with the value; in the place it had, or last when it had none; every
\* other binding as it was.
AfterSet(lv, lv2, name, value) ==
  /\ Cardinality({k \in 1..Len(lv2) : lv2[k].name = name}) = 1
  /\ IF \E k \in 1..Len(lv) : lv[k].name = name
     THEN /\ Len(lv2) = Len(lv)
          /\ \A k \in 1..Len(lv) :
               lv2[k] = IF lv[k].name = name
                        THEN [name |-> name, value |-> value]
                        ELSE lv[k]
     ELSE lv2 = Append(lv, [name |-> name, value |-> value])

\* C19: after "local NAME=VALUE" the local variables hold one binding of NAME,
\* with the value VALUE, in the place it had or last when it is new, and every
\* other binding is as it was.
C19_InsertOrUpdate ==
  [][\A l \in SetLines :
       ReadsBuiltIn(l) =>
         AfterSet(localVars, localVars',
                  NameValue(process_input(l).argv[2]).name,
                  NameValue(process_input(l).argv[2]).value)]_vars

\* The lines "local NAME=" that are read, and the name of such a line.
UnsetLines == {L_localA, L_localB, L_localv1}
UnsetName(l) == Front(process_input(l).argv[2])
\* The bindings of lv but that of name, in their order.
RECURSIVE Without(_, _)
Without(lv, name) ==
  IF lv = <<>> THEN <<>>
  ELSE IF lv[1].name = name THEN Without(Tail(lv), name)
  ELSE <<lv[1]>> \o Without(Tail(lv), name)

\* C20: "local NAME=" leaves the local variables without the binding of NAME
\* and the others in their order (as they were when NAME had none); "export
\* NAME=" leaves the environment without NAME; no binding of the local
\* variables ever has the empty value.
C20_EmptyValueUnsets ==
  [][/\ \A l \in UnsetLines :
          ReadsBuiltIn(l) =>
            /\ localVars' = Without(localVars, UnsetName(l))
            /\ env' = env
     /\ ReadsBuiltIn(L_exportA) =>
          /\ V_A \notin DOMAIN env'
          /\ \A n \in DOMAIN env \ {V_A} : n \in DOMAIN env' /\ env'[n] = env[n]
          /\ localVars' = localVars
     /\ \A k \in 1..Len(localVars') : localVars'[k].value # <<>>]_vars

\* C20's case: "local v1=" has removed the first binding of a full store: the
\* 127 others follow in their order; and A, which the environment bound at
\* the start, has been removed from it.
C20_Witness ==
  /\ pc = "prompt" /\ input = L_localv1
  /\ Len(localVars) = MAX_LOCAL_VARS - 1
  /\ \A k \in 1..Len(localVars) : localVars[k].name = FillName(k + 1)
  /\ V_A \notin DOMAIN env

\* ----------------------------------------------------- substitution, recall
\* "$A"
L_dA == <<"$", "A">>

\* The lines main reads in the specification of substitution and recall.
SubstLines == {L_qA, L_dA, L_exportAx, L_exportA, L_localAl, L_localA,
               L_history1, L_history2}

ReadLineS == \E l \in SubstLines : ParseAndExecute(l)

NextS ==
  \/ ReadLineS
  \/ ForkSingle
  \/ ForkFail
  \/ WaitSingle
  \/ ChildExecSingle
  \/ StageExit

SpecSubst == Init /\ [][NextS]_vars

\* A is bound neither in the environment nor in the local variables.
UnboundA == V_A \notin DOMAIN env /\ FindLocal(localVars, V_A) = 0

\* C22: a line with a token "$A", A bound nowhere, is not rejected by the
\* validation: parse_and_execute goes on to spawn its command, for the line as
\* typed and for the line recalled.
C22_UnboundNotRejected ==
  [][\A l \in {L_qA, L_dA} :
       (pc = "prompt" /\ input' = l /\ num_cmds' = 1 /\ UnboundA) =>
         pc' = "fork_single"]_vars

\* What a recall in progress has read from the history.
Recalled == HistoryEntry(recall.hist0, recall.k)

\* C25: the entry an append stores is the line as typed, and a recall gives
\* the command the words of the stored entry with every "$NAME" resolved in
\* the environment and the local variables as they are when it runs.
C25_RawLineStored ==
  /\ (hlog.op = "append" /\ history # hlog.before) =>
       Last(history) = hlog.cmd
  /\ \A j \in 1..Len(history) : history[j] \in SubstLines
  /\ (recall.st = "active" /\ pc = "wait_single") =>
       /\ input = Recalled
       /\ stage[0].argv =
            DropEmpty([j \in 1..Len(process_input(Recalled).argv) |->
                         ClaimedValue(process_input(Recalled).argv[j])])

\* C25's case: "history 1" runs the entry "q $A" while A is x in the
\* environment, where it was e when the shell started: q is given x.
C25_Witness ==
  /\ recall.st = "active" /\ pc = "wait_single" /\ recall.k = 1
  /\ Recalled = L_qA
  /\ V_A \in DOMAIN env /\ env[V_A] = <<"x">>
  /\ stage[0].argv = <<(<<"q">>), (<<"x">>)>>

\* The names of the built-ins.
BuiltInNames == {S_exit, S_cd, S_history, S_export, S_local, S_vars}

\* C27: no history entry begins with the name of a built-in; a recall never
\* reaches a built-in handler, and while one runs the environment, the local
\* variables and the history capacity do not change and no other recall
\* starts.
C27_NoBuiltInInHistory ==
  [][/\ \A j \in 1..Len(history') : FirstToken(history'[j]) \notin BuiltInNames
     /\ pc' # "recall_builtin"
     /\ recall'.st = "active" =>
          /\ env' = env /\ localVars' = localVars
          /\ history_capacity' = history_capacity
          /\ recall.st = "active" => recall' = recall]_vars

\* C27's case: after "local" and "export" lines a recall has run to its end,
\* and the history holds two entries.
C27_Witness ==
  /\ pc = "prompt" /\ recall.st = "done"
  /\ Len(history) = 2
  /\ localVars # <<>> /\ V_A \notin DOMAIN env

\* ------------------------------------------------------- the two stores
\* "p | q"
L_pq == <<"p", " ", "|", " ", "q">>

\* The lines main reads in the specification of the two stores of variables.
FrameLines == {L_exportAx, L_exportA, L_localAl, L_localA, L_vars, L_qA, L_pq}

ReadLineF == \E l \in FrameLines : ParseAndExecute(l)

NextF ==
  \/ ReadLineF
  \/ ForkSingle
  \/ ForkFail
  \/ WaitSingle
  \/ ChildExecSingle
  \/ PipeFail
  \/ PipeFork
  \/ PipeParentClose
  \/ PipeCloseAll
  \/ PipeWait
  \/ StageExec
  \/ StageExit

SpecFrame == Init /\ [][NextF]_vars

\* The step is main reading a line that parse_and_execute takes as a built-in
\* of the given name.
ReadsBuiltInNamed(name) ==
  pc = "prompt" /\ num_cmds' = 0 /\ FirstToken(input') = name

\* C21: a step that reads an "export" line leaves the local variables as
\* they were, a step that reads a "local" line leaves the environment as it
\* was, and every step of an external command or of a pipeline (its reading,
\* its forks, closes and waits, and the steps of its children) leaves both.
C21_DisjointStores ==
  [][/\ ReadsBuiltInNamed(S_export) => localVars' = localVars
     /\ ReadsBuiltInNamed(S_local) => env' = env
     /\ (pc # "prompt" \/ num_cmds' >= 1) =>
          (env' = env /\ localVars' = localVars)]_vars

\* C21's case: a pipeline has run to its end, A is x in the environment and
\* l in the local variables, each written by its own built-in.
C21_Witness ==
  /\ pc = "prompt" /\ input = L_pq
  /\ \A k \in DOMAIN stage : Terminated(k)
  /\ V_A \in DOMAIN env /\ env[V_A] = <<"x">>
  /\ FindLocal(localVars, V_A) # 0
  /\ localVars[FindLocal(localVars, V_A)].value = <<"l">>

\* ------------------------------------------------------ detached command
\* The step is the fork of execute_command for a line marked detached.
ForksDetached == pc = "fork_single" /\ background /\ pc' # "exited"

\* The number of children that earlier lines left behind.
LeftBehindCount == bg.run + bg.zom

\* C23: the fork of a single command whose last token is "&" spawns the child
\* with the "&" removed and returns to the next line without a wait; and
\* while the detached command is the only line that has run to its end, so
\* that every child left behind is a detached one, no step of the shell reaps
\* a child left behind.
C23_DetachedNeverWaited ==
  [][/\ ForksDetached =>
          /\ pc' = "prompt"
          /\ stage'[0].st = "forked"
          /\ stage'[0].argv = <<(<<"p">>)>>
     /\ history = <<L_bg>> => LeftBehindCount' >= LeftBehindCount]_vars

\* ------------------------------------------------- closes of the executor
\* C29: every close of execute_piped_commands is of a descriptor a pipe() of
\* this call returned and that is open in the caller: when the shell starts
\* its loop over all the slots, each slot holds a pipe descriptor it still has
\* open; and the loop of a child reads only slots a pipe() has filled, none
\* of them the descriptor the child has closed already as its input.
C29_ClosesOpenPipeEnds ==
  /\ pc = "pipe_closeall" =>
       \A j \in 1..Len(pipefds) : IsPipeEnd(shfd[pipefds[j]])
  /\ \A k \in DOMAIN stage :
       (IsPipeline /\ stage[k].st = "forked") =>
         /\ Len(stage[k].pfds) = 2 * num_cmds - 2
         /\ stage[k].fdin # 0 =>
              \A j \in 1..Len(stage[k].pfds) : stage[k].pfds[j] # stage[k].fdin

\* ------------------------------------------------------ end of file in pipes
\* "p | q | p"
L_pqp == <<"p", " ", "|", " ", "q", " ", "|", " ", "p">>

\* The lines main reads in the specification of the end of file in pipes:
\* foreground pipelines of two and of three stages.
LiveLines == {L_pq, L_pqp}

ReadLineL == \E l \in LiveLines : ParseAndExecute(l)

\* The processes that have the write end of pipe j open.
WriterOpen(j) ==
  \/ Holds(shfd, PipeW(j))
  \/ \E k \in DOMAIN stage : Alive(stage[k]) /\ Holds(stage[k].fds, PipeW(j))

\* A read of the standard input of stage k returns 0 (every write end of its
\* pipe is closed) or fails (the descriptor is not open).
StdinEnded(k) ==
  LET d == stage[k].fds[0]
  IN  \/ d = Closed
      \/ d[1] = "r" /\ ~WriterOpen(d[2])

\* The program of stage k terminates: that of stage 0 of itself, that of a
\* later stage once it has read its standard input to the end.
ProgramEnds(k) ==
  /\ k \in DOMAIN stage
  /\ k > 0 => StdinEnded(k)
  /\ ChildExit(k)

\* Child k of the pipeline reaches its execvp.
StageExecs(k) == k \in DOMAIN stage /\ ChildExecPiped(k)

StageExecL == \E k \in 0..2 : StageExecs(k)
StageExitL == \E k \in 0..2 : ProgramEnds(k)

\* A step of the shell inside execute_piped_commands.
ExecutorStep ==
  \/ PipeFork
  \/ ForkFail
  \/ PipeFail
  \/ PipeParentClose
  \/ PipeCloseAll
  \/ PipeWait

NextL ==
  \/ ReadLineL
  \/ PipeFork
  \/ ForkFail
  \/ PipeFail
  \/ PipeParentClose
  \/ PipeCloseAll
  \/ PipeWait
  \/ StageExecL
  \/ StageExitL

\* The system calls of the shell return, every child that was forked is
\* scheduled up to its execvp, and every program ends as ProgramEnds says.
SpecLive ==
  /\ Init /\ [][NextL]_vars
  /\ WF_vars(ExecutorStep)
  /\ \A k \in 0..2 : WF_vars(StageExecs(k)) /\ WF_vars(ProgramEnds(k))

\* The shell is inside execute_piped_commands.
InExecutor == pc \in {"pipe_loop", "pipe_parent", "pipe_closeall", "pipe_wait"}

\* C24: once a foreground pipeline is started, the call eventually returns
\* with every stage terminated, unless a failed fork() or pipe() ends the
\* shell before.
C24_EofPropagates ==
  InExecutor ~>
    \/ pc = "prompt" /\ \A k \in DOMAIN stage : Terminated(k)
    \/ pc = "exited"

\* C24's case: a pipeline of three stages has returned; each stage ran its
\* program to the end and was waited for.
C24_Witness ==
  /\ pc = "prompt" /\ input = L_pqp /\ num_cmds = 3
  /\ \A k \in DOMAIN stage :
       stage[k].st = "reaped" /\ stage[k].status = 0 /\ stage[k].argv # <<>>

\* ------------------------------------------------------ history capacity
\* C26: the history never holds more entries than its capacity, and whenever
\* recording is enabled the capacity is at least 1, after any sequence of
\* appends, resizes and recalls.
C26_CapacityInvariant ==
  /\ current_history_count >= 0
  /\ current_history_count <= history_capacity
  /\ add_to_history_enabled => history_capacity >= 1

\* ------------------------------------------------------------ blank lines
\* The empty line (a lone newline of a batch file, stripped by main) and the
\* line of one space.
L_empty == <<>>
L_blank == <<" ">>

\* The lines main reads in the specification of blank lines.
BlankLines == {L_empty, L_blank, L_p, L_n, L_qA, L_history1}

ReadLineB == \E l \in BlankLines : ParseAndExecute(l)

NextB ==
  \/ ReadLineB
  \/ ForkSingle
  \/ ForkFail
  \/ WaitSingle
  \/ ChildExecSingle
  \/ StageExit

SpecBlank == Init /\ [][NextB]_vars

\* C28: when main hands parse_and_execute a line that is empty or holds only
\* whitespace, the call returns to the prompt having spawned no process and
\* appended nothing to the history, and the interpreter still runs.
C28_BlankLineIgnored ==
  [][\A l \in {L_empty, L_blank} :
       (pc = "prompt" /\ input' = l) =>
         /\ pc' = "prompt"
         /\ history' = history
         /\ \A k \in DOMAIN stage' : stage'[k].st = "none"]_vars
====
